---------------------------- MODULE Spec2Model ----------------------------
(***************************************************************************)
(* A model of the custom_colormaps package: the colour parser              *)
(* (convert_color), the position normaliser (normalize), the continuous    *)
(* table builder (create_colormap), the breakpoint table builder           *)
(* (create_breakpoint_colormap) and the older create_colormap of           *)
(* custom_colormaps/custom_colormaps.py.                                   *)
(*                                                                         *)
(* Numbers are exact rationals <<n, d>> in lowest terms with d > 0.  The   *)
(* results of a float division by zero that numpy produces are kept as     *)
(* <<0, 0>> (nan), <<1, 0>> (inf) and <<-1, 0>> (-inf).  Rounding of       *)
(* binary floating point is not modelled.                                  *)
(***************************************************************************)
EXTENDS Integers, Sequences, FiniteSets, TLC

VARIABLES fn,        \* the function the caller invokes
          colors,    \* the caller's colors object: [kind, elems]
          position,  \* the caller's position object: [isNone, kind, elems]
          bit,       \* the bit argument
          reverse,   \* the reverse argument
          value,     \* the argument of convert_color / normalize
          result,    \* what the call returned or raised
          pc         \* "call" before the call, "done" after it

vars == <<fn, colors, position, bit, reverse, value, result, pc>>

---------------------------------------------------------------------------
(* Bounds of the model *)

\* longest colors / position list given to create_colormap
MaxLen == 3
\* longest colors / position list given to create_breakpoint_colormap
MaxBreakLen == 2
\* largest position value given to create_breakpoint_colormap
MaxBreakPos == 2
\* longest colors / position list given to the older create_colormap
MaxOldLen == 2
\* a large position value; BigPos and BigPos + 1 are positions of the model
BigPos == 100000

(* Program constants *)

\* the divisor of 8-bit colour components
Bits8 == 255
\* 1 / atol and 1 / rtol of np.isclose (numpy's defaults, 1e-8 and 1e-5)
AtolInv == 100000000
RtolInv == 100000

---------------------------------------------------------------------------
(* Exact rational arithmetic *)

Abs(n) == IF n < 0 THEN -n ELSE n

Sign(n) == IF n < 0 THEN -1 ELSE IF n = 0 THEN 0 ELSE 1

RECURSIVE GCD(_, _)
GCD(a, b) == IF b = 0 THEN a ELSE GCD(b, a % b)

\* n / d in lowest terms; a zero divisor gives nan or an infinity
Frac(n, d) ==
    IF d = 0 THEN <<Sign(n), 0>>
    ELSE LET g == GCD(Abs(n), Abs(d))
             s == Sign(d)
         IN  <<(s * n) \div g, (s * d) \div g>>

NaN == <<0, 0>>

IsFinite(a) == a[2] # 0

FSub(a, b) == Frac(a[1] * b[2] - b[1] * a[2], a[2] * b[2])

FDiv(a, b) == Frac(a[1] * b[2], a[2] * b[1])

FLe(a, b) == a[1] * b[2] <= b[1] * a[2]

FLt(a, b) == a[1] * b[2] < b[1] * a[2]

Zero == <<0, 1>>

One == <<1, 1>>

\* a finite number between 0 and 1
InUnit(a) == IsFinite(a) /\ FLe(Zero, a) /\ FLe(a, One)

Rev(s) == [i \in 1..Len(s) |-> s[Len(s) + 1 - i]]

RECURSIVE SeqMin(_)
SeqMin(s) ==
    IF Len(s) = 1 THEN s[1]
    ELSE LET m == SeqMin(Tail(s)) IN IF FLe(s[1], m) THEN s[1] ELSE m

RECURSIVE SeqMax(_)
SeqMax(s) ==
    IF Len(s) = 1 THEN s[1]
    ELSE LET m == SeqMax(Tail(s)) IN IF FLe(m, s[1]) THEN s[1] ELSE m

\* np.isclose(a, b): |a - b| <= atol + rtol * |b|, on finite rationals
\* (both sides are scaled by AtolInv * a[2] * b[2]; the left side is a whole
\* number, so the right side may be rounded down before comparing)
IsClose(a, b) ==
    Abs(a[1] * b[2] - b[1] * a[2])
        <= (a[2] * b[2] + (AtolInv \div RtolInv) * Abs(b[1]) * a[2])
               \div AtolInv

\* np.linspace(0, 1, n)
Linspace(n) ==
    IF n = 1 THEN <<Zero>> ELSE [i \in 1..n |-> Frac(i - 1, n - 1)]

---------------------------------------------------------------------------
(* Colour specifications *)

\* an int component and a float component of a tuple, list or array
I(n) == [int |-> TRUE, q |-> <<n, 1>>]

F(n, d) == [int |-> FALSE, q |-> Frac(n, d)]

\* a colour name, a string spelling a tuple, a tuple or list, an ndarray
Str(s) == [kind |-> "str", name |-> s, elems |-> <<>>]

Lit(e) == [kind |-> "str", name |-> "", elems |-> e]

Tup(e) == [kind |-> "tuple", name |-> "", elems |-> e]

Arr(e) == [kind |-> "array", name |-> "", elems |-> e]

\* the colour names of the model, as matplotlib resolves them
NamedColors ==
    [n \in {"black", "white", "red", "blue"} |->
        CASE n = "black" -> <<Zero, Zero, Zero>>
          [] n = "white" -> <<One, One, One>>
          [] n = "red"   -> <<One, Zero, Zero>>
          [] n = "blue"  -> <<Zero, Zero, One>>]

Ok(rgb) == [ok |-> TRUE, err |-> "", rgb |-> rgb]

Fail(e) == [ok |-> FALSE, err |-> e, rgb |-> <<>>]

\* ColorConverter().to_rgb on a sequence of numbers
ToRgb(nums) ==
    IF Len(nums) \notin {3, 4} THEN Fail("ValueError: Invalid RGBA argument")
    ELSE IF \E i \in 1..Len(nums) : ~InUnit(nums[i])
         THEN Fail("ValueError: RGBA values should be within 0-1 range")
    ELSE Ok(<<nums[1], nums[2], nums[3]>>)

Values(elems) == [i \in 1..Len(elems) |-> elems[i].q]

Div255(elems) == [i \in 1..Len(elems) |-> FDiv(elems[i].q, <<Bits8, 1>>)]

\* (a variant that asks every element to be an int above 1)
Looks8BitAll(elems) ==
    \A i \in 1..Len(elems) : elems[i].int /\ FLt(One, elems[i].q)

\* the 8-bit heuristic of convert_color: some element is an int above 1
Looks8Bit(elems) ==
    \E i \in 1..Len(elems) : elems[i].int /\ FLt(One, elems[i].q)

\* an ndarray of integer element type
IntDtype(elems) == \A i \in 1..Len(elems) : elems[i].int

\* convert_color(color)
ConvertColor(color) ==
    IF color.kind = "array"
    THEN ToRgb(IF IntDtype(color.elems) THEN Div255(color.elems)
               ELSE Values(color.elems))
    ELSE IF color.kind = "tuple"
         \* str(color) names no colour, so the tuple is read back and resolved
         THEN ToRgb(IF Looks8Bit(color.elems) THEN Div255(color.elems)
                    ELSE Values(color.elems))
    \* a string: its characters are no ints, so nothing is divided
    ELSE IF color.name \in DOMAIN NamedColors THEN Ok(NamedColors[color.name])
    ELSE IF color.elems # <<>> THEN ToRgb(Values(color.elems))
    ELSE Fail("ValueError: malformed node or string")

\* normalize(value, vmin, vmax) with vmin and vmax given, on numpy scalars
Normalize(v, vmin, vmax) == FDiv(FSub(v, vmin), FSub(vmax, vmin))

---------------------------------------------------------------------------
(* Results of a call *)

EmptyTable == [red |-> <<>>, green |-> <<>>, blue |-> <<>>]

NoResult ==
    [status |-> "none", error |-> "", table |-> EmptyTable, value |-> <<>>]

\* an exception
Raise(e) ==
    [status |-> "error", error |-> e, table |-> EmptyTable, value |-> <<>>]

\* a colormap returned, as its segment table
Return(t) == [status |-> "ok", error |-> "", table |-> t, value |-> <<>>]

\* a number, a sequence of numbers or a colour returned
ReturnValue(v) ==
    [status |-> "ok", error |-> "", table |-> EmptyTable, value |-> v]

NoPosition == [isNone |-> TRUE, kind |-> "none", elems |-> <<>>]

Given(kind, elems) == [isNone |-> FALSE, kind |-> kind, elems |-> elems]


---------------------------------------------------------------------------
(* create_colormap of custom_colormaps/__init__.py *)

\* the colors after bit=True: every component of every colour divided by
\* 255 and the rows gathered in a float ndarray; a string has no numeric
\* components and the division raises
BitScale(cs) ==
    IF \E i \in 1..Len(cs) : cs[i].kind = "str"
    THEN [ok |-> FALSE, cs |-> <<>>]
    ELSE [ok |-> TRUE,
          cs |-> [i \in 1..Len(cs) |->
                    Arr([j \in 1..Len(cs[i].elems) |->
                           [int |-> FALSE,
                            q |-> FDiv(cs[i].elems[j].q, <<Bits8, 1>>)]])]]

\* the loop over zip(position, colors): one (x, value, value) per channel
RECURSIVE ContinuousRows(_, _, _, _, _)
ContinuousRows(ps, cs, vmin, vmax, acc) ==
    IF ps = <<>> \/ cs = <<>> THEN Return(acc)
    ELSE LET x == Normalize(Head(ps), vmin, vmax)
             c == ConvertColor(Head(cs))
         IN  IF ~c.ok THEN Raise(c.err)
             ELSE ContinuousRows(Tail(ps), Tail(cs), vmin, vmax,
                    [red   |-> Append(acc.red,   <<x, c.rgb[1], c.rgb[1]>>),
                     green |-> Append(acc.green, <<x, c.rgb[2], c.rgb[2]>>),
                     blue  |-> Append(acc.blue,  <<x, c.rgb[3], c.rgb[3]>>)])

\* (a variant whose order check reverses the positions alone)
CreateColormapKeepColors(cs, pos, b, r) ==
    LET c1 == IF r THEN Rev(cs) ELSE cs
        p1 == IF pos.isNone THEN Linspace(Len(c1)) ELSE pos.elems
    IN  IF Len(p1) # Len(c1)
        THEN Raise("ValueError: position length must be the same as colors")
        ELSE IF Len(p1) = 0
        THEN Raise("ValueError: zero-size array to reduction operation")
        ELSE LET vmin == SeqMin(p1)
                 vmax == SeqMax(p1)
                 flip == IsClose(p1[1], vmax)
                 c2   == c1
                 p2   == IF flip THEN Rev(p1) ELSE p1
                 c3   == IF b THEN BitScale(c2) ELSE [ok |-> TRUE, cs |-> c2]
             IN  IF ~c3.ok
                 THEN Raise("TypeError: unsupported operand type(s) for /")
                 ELSE ContinuousRows(p2, c3.cs, vmin, vmax, EmptyTable)

\* create_colormap(colors, position, bit, reverse)
CreateColormap(cs, pos, b, r) ==
    LET c1 == IF r THEN Rev(cs) ELSE cs
        p1 == IF pos.isNone THEN Linspace(Len(c1)) ELSE pos.elems
    IN  IF Len(p1) # Len(c1)
        THEN Raise("ValueError: position length must be the same as colors")
        \* np.min of an empty sequence raises
        ELSE IF Len(p1) = 0
        THEN Raise("ValueError: zero-size array to reduction operation")
        ELSE LET vmin == SeqMin(p1)
                 vmax == SeqMax(p1)
                 flip == IsClose(p1[1], vmax)
                 c2   == IF flip THEN Rev(c1) ELSE c1
                 p2   == IF flip THEN Rev(p1) ELSE p1
                 c3   == IF b THEN BitScale(c2) ELSE [ok |-> TRUE, cs |-> c2]
             IN  IF ~c3.ok
                 THEN Raise("TypeError: unsupported operand type(s) for /")
                 ELSE ContinuousRows(p2, c3.cs, vmin, vmax, EmptyTable)

\* the colours and the position values given to create_colormap
Palette ==
    { Str("red"),
      Tup(<<I(0), I(51), I(255)>>),
      Tup(<<F(1, 5), F(1, 1), F(0, 1)>>),
      Tup(<<I(300), I(0), I(0)>>) }

PosValues == { <<0, 1>>, <<1, 1>>, <<BigPos, 1>>, <<BigPos + 1, 1>> }

SeqsUpTo(S, n) == UNION { [1..k -> S] : k \in 0..n }

NoValue == [kind |-> "none", v |-> <<>>, limits |-> "none"]

InitColormap ==
    /\ fn = "create_colormap"
    /\ \E cs \in SeqsUpTo(Palette, MaxLen) :
          colors = [kind |-> "list", elems |-> cs]
    /\ \/ position = NoPosition
       \/ \E ps \in SeqsUpTo(PosValues, MaxLen) : position = Given("list", ps)
    /\ bit \in BOOLEAN
    /\ reverse \in BOOLEAN
    /\ value = NoValue
    /\ result = NoResult
    /\ pc = "call"

\* the call: slices and np.array make new objects, the arguments are only read
CallCreateColormap ==
    /\ pc = "call"
    /\ fn = "create_colormap"
    /\ result' = CreateColormap(colors.elems, position, bit, reverse)
    /\ pc' = "done"
    /\ UNCHANGED <<fn, colors, position, bit, reverse, value>>

NextColormap == CallCreateColormap

SpecColormap == InitColormap /\ [][NextColormap]_vars

---------------------------------------------------------------------------
(* Claims about create_colormap *)

StrictlyAscending(ps) ==
    \A i \in 1..(Len(ps) - 1) : FLt(ps[i], ps[i + 1])

StrictlyDescending(ps) ==
    \A i \in 1..(Len(ps) - 1) : FLt(ps[i + 1], ps[i])

\* the colour create_colormap parses for a given colour: with bit=True its
\* components are divided by 255 first and it reaches convert_color as a
\* float array
Parsed(c, b) ==
    IF ~b THEN ConvertColor(c)
    ELSE IF c.kind = "str" THEN Fail("TypeError")
    ELSE ConvertColor(BitScale(<<c>>).cs[1])

AllParse(cs, b) == \A i \in 1..Len(cs) : Parsed(cs[i], b).ok

\* channel k of the table whose entry i is (normalize(ps[i]), v_i, v_i),
\* v_i the parsed channel value of cs[i]
AnchorChannel(ps, cs, b, k) ==
    [i \in 1..Len(ps) |->
        <<Normalize(ps[i], SeqMin(ps), SeqMax(ps)),
          Parsed(cs[i], b).rgb[k], Parsed(cs[i], b).rgb[k]>>]

AnchorTable(ps, cs, b) ==
    [red   |-> AnchorChannel(ps, cs, b, 1),
     green |-> AnchorChannel(ps, cs, b, 2),
     blue  |-> AnchorChannel(ps, cs, b, 3)]

DoneColormap == pc = "done" /\ fn = "create_colormap"

\* the colors after the reverse flag
Flagged == IF reverse THEN Rev(colors.elems) ELSE colors.elems

\* a call with explicit strictly descending positions, one per colour, at
\* least two
DescendingCall ==
    /\ DoneColormap
    /\ ~position.isNone
    /\ Len(position.elems) = Len(colors.elems)
    /\ Len(colors.elems) >= 2
    /\ StrictlyDescending(position.elems)

\* C1 as stated: with strictly descending positions the call returns what
\* create_colormap(colors, reversed(positions)) returns, colors unchanged
C1_SameAsAscendingPositions ==
    DescendingCall =>
        result = CreateColormap(colors.elems,
                                Given("list", Rev(position.elems)),
                                bit, reverse)

\* C1 amended: with strictly descending positions the colours are reversed
\* together with the positions: entry i of the table is
\* (normalize(p_{n+1-i}), v_{n+1-i}, v_{n+1-i}), and the call returns what
\* create_colormap(reversed(colors), reversed(positions)) returns whenever
\* the smallest position is not np.isclose to the largest
C1_DescendingReversesPairs ==
    DescendingCall =>
        /\ IF AllParse(Flagged, bit)
           THEN result = Return(AnchorTable(Rev(position.elems),
                                            Rev(Flagged), bit))
           ELSE result.status = "error"
        /\ ~IsClose(SeqMin(position.elems), SeqMax(position.elems)) =>
               result = CreateColormap(Rev(colors.elems),
                                       Given("list", Rev(position.elems)),
                                       bit, reverse)

\* a descending call that returned a table whose colours read differently
\* backwards, with extremes that are not close to each other
C1_Witness ==
    /\ DescendingCall
    /\ result.status = "ok"
    /\ Len(result.table.red) = 3
    /\ colors.elems[1] # colors.elems[3]
    /\ ~IsClose(SeqMin(position.elems), SeqMax(position.elems))

\* the positions create_colormap works with
Effective ==
    IF position.isNone THEN Linspace(Len(Flagged)) ELSE position.elems

\* C3 as stated: a degenerate position domain (vmin = vmax) makes
\* create_colormap fail with an error and return no table
C3_DegenerateDomainRaises ==
    ( /\ DoneColormap
      /\ Len(Effective) = Len(colors.elems)
      /\ Len(Effective) >= 1
      /\ SeqMin(Effective) = SeqMax(Effective) )
    => result.status = "error"

\* a call with at least two colours and ascending positions, explicit or
\* omitted
AscendingCall ==
    /\ DoneColormap
    /\ Len(colors.elems) >= 2
    /\ Len(Effective) = Len(colors.elems)
    /\ StrictlyAscending(Effective)

\* C6 as stated: with n >= 2 colours and ascending positions the table has
\* n entries per channel, entry i being (normalize(p_i), v_i, v_i) with v_i
\* the parsed value of colour i (of colour n-1-i under reverse); the first
\* x is 0 and the last is 1
C6_AscendingEntries ==
    (AscendingCall /\ result.status = "ok") =>
        /\ result.table = AnchorTable(Effective, Flagged, bit)
        /\ result.table.red[1][1] = Zero
        /\ result.table.red[Len(colors.elems)][1] = One

\* C7 as stated: every entry of a returned table has x and both channel
\* values between 0 and 1
C7_ColormapEntriesInUnit ==
    (DoneColormap /\ result.status = "ok") =>
        \A ch \in {result.table.red, result.table.green, result.table.blue} :
            \A i \in 1..Len(ch) :
                InUnit(ch[i][1]) /\ InUnit(ch[i][2]) /\ InUnit(ch[i][3])

---------------------------------------------------------------------------
(* create_breakpoint_colormap of custom_colormaps/__init__.py *)

Black == <<Zero, Zero, Zero>>

White == <<One, One, One>>

\* all position values of a list of start-stop pairs, flattened
RECURSIVE Flatten(_)
Flatten(ps) == IF ps = <<>> THEN <<>> ELSE Head(ps) \o Flatten(Tail(ps))

\* the default position: len(colors) equal intervals that partition [0, 1]
DefaultIntervals(n) ==
    [i \in 1..n |-> <<Linspace(n + 1)[i], Linspace(n + 1)[i + 1]>>]

AddRow(acc, x, y0, y1) ==
    [red   |-> Append(acc.red,   <<x, y0[1], y1[1]>>),
     green |-> Append(acc.green, <<x, y0[2], y1[2]>>),
     blue  |-> Append(acc.blue,  <<x, y0[3], y1[3]>>)]

\* (a variant that places every entry after the first at the stop of the
\* interval before it)
RECURSIVE BreakRowsAtStop(_, _, _, _, _, _, _, _)
BreakRowsAtStop(ps, cs, vmin, vmax, y0, y1, stop, acc) ==
    IF ps = <<>> \/ cs = <<>>
    THEN Return(AddRow(acc, Normalize(stop, vmin, vmax), y0, y1))
    ELSE LET in  == ConvertColor(Head(cs)[1])
             out == ConvertColor(Head(cs)[2])
             x   == Normalize(IF acc.red = <<>> THEN Head(ps)[1] ELSE stop,
                              vmin, vmax)
         IN  IF ~in.ok THEN Raise(in.err)
             ELSE IF ~out.ok THEN Raise(out.err)
             ELSE BreakRowsAtStop(Tail(ps), Tail(cs), vmin, vmax, out.rgb,
                                  in.rgb, Head(ps)[2],
                                  AddRow(acc, x, y0, in.rgb))

\* (a variant that never updates y0)
RECURSIVE BreakRowsStaleY0(_, _, _, _, _, _, _, _)
BreakRowsStaleY0(ps, cs, vmin, vmax, y0, y1, stop, acc) ==
    IF ps = <<>> \/ cs = <<>>
    THEN Return(AddRow(acc, Normalize(stop, vmin, vmax), y0, y1))
    ELSE LET in  == ConvertColor(Head(cs)[1])
             out == ConvertColor(Head(cs)[2])
             x   == Normalize(Head(ps)[1], vmin, vmax)
         IN  IF ~in.ok THEN Raise(in.err)
             ELSE IF ~out.ok THEN Raise(out.err)
             ELSE BreakRowsStaleY0(Tail(ps), Tail(cs), vmin, vmax, y0,
                                   in.rgb, Head(ps)[2],
                                   AddRow(acc, x, y0, in.rgb))

\* the loop over zip(position, colors) and the trailing entry after it; y0
\* and y1 are carried from one iteration to the next, stop is pos_stop
RECURSIVE BreakRows(_, _, _, _, _, _, _, _)
BreakRows(ps, cs, vmin, vmax, y0, y1, stop, acc) ==
    IF ps = <<>> \/ cs = <<>>
    THEN Return(AddRow(acc, Normalize(stop, vmin, vmax), y0, y1))
    ELSE LET in  == ConvertColor(Head(cs)[1])
             out == ConvertColor(Head(cs)[2])
             x   == Normalize(Head(ps)[1], vmin, vmax)
         IN  IF ~in.ok THEN Raise(in.err)
             ELSE IF ~out.ok THEN Raise(out.err)
             ELSE BreakRows(Tail(ps), Tail(cs), vmin, vmax, out.rgb, in.rgb,
                            Head(ps)[2], AddRow(acc, x, y0, in.rgb))

\* create_breakpoint_colormap(colors, position)
CreateBreakpointColormap(cs, pos) ==
    LET p1 == IF pos.isNone THEN DefaultIntervals(Len(cs)) ELSE pos.elems
    IN  IF Len(p1) # Len(cs)
        THEN Raise("ValueError: position length must be the same as colors")
        ELSE IF \E i \in 1..Len(p1) : Len(p1[i]) # 2
        THEN Raise("ValueError: Each element in position must have a length of 2")
        ELSE IF \E i \in 1..Len(cs) : Len(cs[i]) # 2
        THEN Raise("ValueError: Each element in colors must have a length of 2")
        \* np.min of an empty sequence raises
        ELSE IF Len(p1) = 0
        THEN Raise("ValueError: zero-size array to reduction operation")
        ELSE LET vmin == SeqMin(Flatten(p1))
                 vmax == SeqMax(Flatten(p1))
             IN  IF IsClose(p1[1][1], vmax)
                 THEN Raise("ValueError: position must increase")
                 ELSE BreakRows(p1, cs, vmin, vmax, Black, White, Zero,
                                EmptyTable)

\* the colour pairs and the start-stop pairs given to
\* create_breakpoint_colormap; one element of each has the wrong length
PairPalette ==
    { <<Str("black"), Str("white")>>,
      <<Str("white"), Tup(<<I(255), I(0), I(0)>>)>>,
      <<Str("bogus"), Str("red")>>,
      <<Str("red")>> }

BreakPosValues == { <<n, 1>> : n \in 0..MaxBreakPos }

BreakPosElems ==
    (BreakPosValues \X BreakPosValues) \cup { <<Zero, One, One>> }

InitBreakpoint ==
    /\ fn = "create_breakpoint_colormap"
    /\ \E cs \in SeqsUpTo(PairPalette, MaxBreakLen) :
          colors = [kind |-> "list", elems |-> cs]
    /\ \/ position = NoPosition
       \/ \E ps \in SeqsUpTo(BreakPosElems, MaxBreakLen) :
             position = Given("list", ps)
    /\ bit = FALSE
    /\ reverse = FALSE
    /\ value = NoValue
    /\ result = NoResult
    /\ pc = "call"

\* the call: the arguments are only read
CallCreateBreakpointColormap ==
    /\ pc = "call"
    /\ fn = "create_breakpoint_colormap"
    /\ result' = CreateBreakpointColormap(colors.elems, position)
    /\ pc' = "done"
    /\ UNCHANGED <<fn, colors, position, bit, reverse, value>>

NextBreakpoint == CallCreateBreakpointColormap

SpecBreakpoint == InitBreakpoint /\ [][NextBreakpoint]_vars

---------------------------------------------------------------------------
(* Claims about create_breakpoint_colormap *)

DoneBreakpoint == pc = "done" /\ fn = "create_breakpoint_colormap"

\* the start-stop pairs create_breakpoint_colormap works with
Intervals ==
    IF position.isNone THEN DefaultIntervals(Len(colors.elems))
    ELSE position.elems

\* the lists have one length and every element has two components
WellShaped ==
    /\ Len(Intervals) = Len(colors.elems)
    /\ \A i \in 1..Len(Intervals) : Len(Intervals[i]) = 2
    /\ \A i \in 1..Len(colors.elems) : Len(colors.elems[i]) = 2

\* C2 as stated: position pairs that are not strictly ascending across the
\* list (here: some start is below the start before it) make
\* create_breakpoint_colormap raise and return no table
C2_NonAscendingRaises ==
    ( /\ DoneBreakpoint
      /\ WellShaped
      /\ \E i \in 1..(Len(Intervals) - 1) :
             FLt(Intervals[i + 1][1], Intervals[i][1]) )
    => result.status = "error"

BreakX(v) == Normalize(v, SeqMin(Flatten(Intervals)), SeqMax(Flatten(Intervals)))

\* the parsed first (in) and second (out) colour of pair i
InRgb(i) == ConvertColor(colors.elems[i][1]).rgb

OutRgb(i) == ConvertColor(colors.elems[i][2]).rgb

\* C5: an accepted list of n >= 1 breakpoint anchors gives n + 1 entries per
\* channel: entry 0 is (normalize(start_0), black, in_0), entry i is
\* (normalize(start_i), out_{i-1}, in_i) for 1 <= i < n, and the trailing
\* entry is (normalize(stop_{n-1}), out_{n-1}, in_{n-1}); the exit value of
\* every entry is a parsed input colour, never the white placeholder
C5_BreakpointEntries ==
    (DoneBreakpoint /\ result.status = "ok") =>
        LET n  == Len(colors.elems)
            ch == <<result.table.red, result.table.green, result.table.blue>>
        IN  /\ n >= 1
            /\ \A k \in 1..3 :
                 /\ Len(ch[k]) = n + 1
                 /\ ch[k][1] = <<BreakX(Intervals[1][1]), Black[k], InRgb(1)[k]>>
                 /\ \A i \in 2..n :
                      ch[k][i] = <<BreakX(Intervals[i][1]),
                                   OutRgb(i - 1)[k], InRgb(i)[k]>>
                 /\ ch[k][n + 1] = <<BreakX(Intervals[n][2]),
                                     OutRgb(n)[k], InRgb(n)[k]>>

\* an accepted call with two different anchors and explicit positions whose
\* inner boundary is a jump: the red value entering it (the first pair's
\* second colour) differs from the one leaving it
C5_Witness ==
    /\ DoneBreakpoint
    /\ result.status = "ok"
    /\ ~position.isNone
    /\ Len(colors.elems) = 2
    /\ colors.elems[1] # colors.elems[2]
    /\ result.table.red[2][2] # result.table.red[2][3]

\* the position lists that differ from the given one only in the stops of
\* the intervals before the last, with the same overall min and max
OtherStops ==
    LET n == Len(Intervals)
    IN  { alt \in { [i \in 1..n |->
                       <<Intervals[i][1],
                         IF i = n THEN Intervals[n][2] ELSE st[i]>>] :
                    st \in [1..(n - 1) -> BreakPosValues] } :
            /\ SeqMin(Flatten(alt)) = SeqMin(Flatten(Intervals))
            /\ SeqMax(Flatten(alt)) = SeqMax(Flatten(Intervals)) }

\* C10: the table does not depend on the stop of any interval but the last,
\* except through the domain minimum and maximum: every accepted input with
\* the same colours, starts, last stop and overall min and max gives the
\* same table
C10_InnerStopsLeaveNoTrace ==
    (DoneBreakpoint /\ result.status = "ok" /\ ~position.isNone) =>
        \A alt \in OtherStops :
            CreateBreakpointColormap(colors.elems, Given("list", alt)) = result

\* an accepted call for which another choice of an inner stop exists
C10_Witness ==
    /\ DoneBreakpoint
    /\ result.status = "ok"
    /\ ~position.isNone
    /\ Len(colors.elems) >= 2
    /\ \E alt \in OtherStops : alt # Intervals

---------------------------------------------------------------------------
(* create_colormap of custom_colormaps/custom_colormaps.py *)

\* an ndarray holds one element type: ints only when every element is one
AsArray(rows) ==
    IF \A i \in 1..Len(rows) : IntDtype(rows[i]) THEN rows
    ELSE [i \in 1..Len(rows) |->
            [j \in 1..Len(rows[i]) |-> [int |-> FALSE, q |-> rows[i][j].q]]]

\* np.array(colors, dtype='f'): a new float array
AsFloatArray(rows) ==
    [i \in 1..Len(rows) |->
        [j \in 1..Len(rows[i]) |-> [int |-> FALSE, q |-> rows[i][j].q]]]

\* one element after colors[:] = [... x / 255. ...]: the quotient, cut to a
\* whole number when the array's element type is an integer
Stored(e) ==
    LET d == FDiv(e.q, <<Bits8, 1>>)
    IN  IF e.int THEN [int |-> TRUE, q |-> <<d[1] \div d[2], 1>>]
        ELSE [int |-> FALSE, q |-> d]

ScaleRows(rows) ==
    [i \in 1..Len(rows) |-> [j \in 1..Len(rows[i]) |-> Stored(rows[i][j])]]

\* the loop over zip(position, colors): positions are used as given
RECURSIVE OldRows(_, _, _)
OldRows(ps, cs, acc) ==
    IF ps = <<>> \/ cs = <<>> THEN Return(acc)
    ELSE OldRows(Tail(ps), Tail(cs),
            [red   |-> Append(acc.red,   <<Head(ps), Head(cs)[1].q, Head(cs)[1].q>>),
             green |-> Append(acc.green, <<Head(ps), Head(cs)[2].q, Head(cs)[2].q>>),
             blue  |-> Append(acc.blue,  <<Head(ps), Head(cs)[3].q, Head(cs)[3].q>>)])

\* the checks on position, made only when position arrives as an ndarray
OldPositionError(pos, n) ==
    IF pos.isNone \/ pos.kind # "ndarray" THEN ""
    ELSE IF Len(pos.elems) # n
    THEN "ValueError: position length must be the same as colors"
    ELSE IF n = 0 THEN "IndexError: index 0 is out of bounds"
    ELSE IF ~IsClose(pos.elems[1], Zero) /\ ~IsClose(pos.elems[n], One)
    THEN "ValueError: position must start with 0 and end with 1"
    ELSE ""

\* create_colormap(colors, position, bit, reverse) of the older module:
\* what it returns or raises, and what the caller's colors holds afterwards
OldCreateColormap(cobj, pos, b, r) ==
    LET own == cobj.kind # "ndarray"
        c0  == IF own THEN AsFloatArray(cobj.elems) ELSE cobj.elems
        c1  == IF r THEN Rev(c0) ELSE c0
        n   == Len(c1)
        p1  == IF pos.isNone THEN Linspace(n) ELSE pos.elems
        err == OldPositionError(pos, n)
        c2  == IF b THEN ScaleRows(c1) ELSE c1
        \* colors[:] = ... writes through the view into the caller's array
        after == IF own \/ ~b THEN cobj
                 ELSE [cobj EXCEPT !.elems = IF r THEN Rev(c2) ELSE c2]
    IN  IF err # "" THEN [result |-> Raise(err), colors |-> cobj]
        ELSE [result |-> OldRows(p1, c2, EmptyTable), colors |-> after]

\* the colour rows and position values given to the older create_colormap
OldPalette == { <<I(255), I(0), I(51)>>, <<F(1, 5), F(1, 1), F(0, 1)>> }

OldPosValues == { <<0, 1>>, <<1, 1>>, <<2, 1>> }

InitOld ==
    /\ fn = "old_create_colormap"
    /\ \E cs \in SeqsUpTo(OldPalette, MaxOldLen) :
          \/ colors = [kind |-> "list", elems |-> cs]
          \/ colors = [kind |-> "ndarray", elems |-> AsArray(cs)]
    /\ \/ position = NoPosition
       \/ \E ps \in SeqsUpTo(OldPosValues, MaxOldLen + 1) :
             \E k \in {"list", "ndarray"} : position = Given(k, ps)
    /\ bit \in BOOLEAN
    /\ reverse \in BOOLEAN
    /\ value = NoValue
    /\ result = NoResult
    /\ pc = "call"

CallOldCreateColormap ==
    /\ pc = "call"
    /\ fn = "old_create_colormap"
    /\ LET r == OldCreateColormap(colors, position, bit, reverse)
       IN  result' = r.result /\ colors' = r.colors
    /\ pc' = "done"
    /\ UNCHANGED <<fn, position, bit, reverse, value>>

NextOld == CallOldCreateColormap

SpecOld == InitOld /\ [][NextOld]_vars

---------------------------------------------------------------------------
(* Claims about the older create_colormap *)

DoneOld == pc = "done" /\ fn = "old_create_colormap"

\* C4 as stated: an explicit position whose length differs from that of
\* colors makes the builder raise, whatever container holds position
C4_LengthMismatchRaises ==
    ( /\ DoneOld
      /\ ~position.isNone
      /\ Len(position.elems) # Len(colors.elems) )
    => result.status = "error"

\* C8 as stated: a call leaves the caller's colors and position as they were
C8_InputsUnchanged ==
    [][colors' = colors /\ position' = position]_vars

---------------------------------------------------------------------------
(* convert_color and normalize called on their own *)

\* normalize(value, vmin=None, vmax=None).  val.kind tells what value is: a
\* Python number ("pyscalar"), a numpy number ("npscalar"), a list or an
\* ndarray; val.v holds its numbers; val.limits tells whether vmin and vmax
\* are omitted ("none"), Python numbers ("py") or numpy numbers ("np")
NormalizeCall(val) ==
    LET omitted == val.limits = "none"
        vmin == IF omitted THEN SeqMin(val.v) ELSE val.vmin
        vmax == IF omitted THEN SeqMax(val.v) ELSE val.vmax
        \* value - vmin is a numpy value unless both operands are Python's
        numpyNum == val.kind \in {"npscalar", "ndarray"}
                        \/ omitted \/ val.limits = "np"
        norm == [i \in 1..Len(val.v) |-> Normalize(val.v[i], vmin, vmax)]
    IN  IF omitted /\ val.kind = "pyscalar"
        THEN Raise("ValueError: Either define vmin/vmax or make value array-like")
        \* np.min of an empty sequence raises
        ELSE IF omitted /\ val.v = <<>>
        THEN Raise("ValueError: zero-size array to reduction operation")
        ELSE IF val.kind = "list" /\ ~numpyNum
        THEN Raise("TypeError: unsupported operand type(s) for -")
        ELSE IF ~numpyNum /\ vmax = vmin
        THEN Raise("ZeroDivisionError: float division by zero")
        ELSE ReturnValue(norm)

\* convert_color(color) as a call
ConvertCall(color) ==
    LET c == ConvertColor(color)
    IN  IF c.ok THEN ReturnValue(c.rgb) ELSE Raise(c.err)

\* the components, the colours and the numbers of the direct calls
IntComponents == { I(0), I(1), I(2), I(255) }

FloatComponents == { F(0, 1), F(1, 5), F(1, 1), F(255, 1) }

Triples(S) == [1..3 -> S]

MixedTuples ==
    { <<F(1, 5), I(204), I(0)>>, <<I(1), F(1, 5), I(0)>>,
      <<I(2), F(1, 1), F(1, 5)>> }

ColorInputs ==
    { Tup(e) : e \in Triples(IntComponents) \cup Triples(FloatComponents)
                       \cup MixedTuples }
      \cup { Arr(e) : e \in Triples(IntComponents \ {I(2)})
                              \cup Triples(FloatComponents \ {F(255, 1)}) }
      \cup { Str(n) : n \in {"black", "white", "red", "blue", "bogus"} }
      \cup { Lit(<<I(1), I(0), I(0)>>), Lit(<<I(255), I(0), I(0)>>) }

NormValues == { <<0, 1>>, <<1, 1>>, <<2, 1>> }

NormInputs ==
    { [kind |-> k, v |-> <<x>>, limits |-> l, vmin |-> lo, vmax |-> hi] :
        k \in {"pyscalar", "npscalar"}, x \in NormValues,
        l \in {"py", "np"}, lo \in NormValues, hi \in NormValues }
      \cup { [kind |-> k, v |-> <<x>>, limits |-> "none", vmin |-> Zero,
              vmax |-> Zero] :
               k \in {"pyscalar", "npscalar"}, x \in NormValues }
      \cup { [kind |-> k, v |-> xs, limits |-> l, vmin |-> Zero,
              vmax |-> <<2, 1>>] :
               k \in {"list", "ndarray"}, xs \in SeqsUpTo(NormValues, 2),
               l \in {"none", "py", "np"} }

InitConvert ==
    /\ \/ fn = "convert_color" /\ value \in ColorInputs
       \/ fn = "normalize" /\ value \in NormInputs
    /\ colors = [kind |-> "list", elems |-> <<>>]
    /\ position = NoPosition
    /\ bit = FALSE
    /\ reverse = FALSE
    /\ result = NoResult
    /\ pc = "call"

CallConvertColor ==
    /\ pc = "call"
    /\ fn = "convert_color"
    /\ result' = ConvertCall(value)
    /\ pc' = "done"
    /\ UNCHANGED <<fn, colors, position, bit, reverse, value>>

CallNormalize ==
    /\ pc = "call"
    /\ fn = "normalize"
    /\ result' = NormalizeCall(value)
    /\ pc' = "done"
    /\ UNCHANGED <<fn, colors, position, bit, reverse, value>>

NextConvert == CallConvertColor \/ CallNormalize

SpecConvert == InitConvert /\ [][NextConvert]_vars

---------------------------------------------------------------------------
(* Claims about convert_color *)

DoneConvert == pc = "done" /\ fn = "convert_color"

\* a tuple or an array of three components that are ints in 0..255 or
\* floats in [0, 1]
ValidComponents ==
    \A i \in 1..3 :
        IF value.elems[i].int THEN FLe(value.elems[i].q, <<Bits8, 1>>)
        ELSE InUnit(value.elems[i].q)

Over255(i) == FDiv(value.elems[i].q, <<Bits8, 1>>)

\* C9: a tuple with an int component above 1 comes back with every
\* component divided by 255, so (255, 0, 0) gives what (1.0, 0.0, 0.0)
\* gives; a tuple with no int component above 1 comes back undivided; an
\* array of integer element type is divided by 255, also when all its
\* elements are 0 or 1
C9_EightBitHeuristic ==
    (DoneConvert /\ value.kind \in {"tuple", "array"} /\ ValidComponents) =>
        LET ints  == \A i \in 1..3 : value.elems[i].int
            above == \E i \in 1..3 :
                        value.elems[i].int /\ FLt(One, value.elems[i].q)
            div   == IF value.kind = "array" THEN ints ELSE above
        IN  /\ div =>
                result = ReturnValue(<<Over255(1), Over255(2), Over255(3)>>)
            /\ ~div =>
                result = ReturnValue(<<value.elems[1].q, value.elems[2].q,
                                       value.elems[3].q>>)
            /\ value = Tup(<<I(255), I(0), I(0)>>) =>
                result = ConvertCall(Tup(<<F(1, 1), F(0, 1), F(0, 1)>>))

\* a tuple of ints of which only some are above 1 has been converted
C9_Witness ==
    /\ DoneConvert
    /\ value = Tup(<<I(255), I(0), I(1)>>)
    /\ result.value = <<One, Zero, <<1, 255>>>>

============================================================================
